---- MODULE Spec2Model ----
(***************************************************************************)
(* A model of the AutoTrader of trader-3.py: the message-rate window, the  *)
(* ledger of own orders (bids, asks), the hedge sets, position and delta,  *)
(* the snapshot gate, the arbitrage detector and the market-making quoter. *)
(*                                                                         *)
(* Times are in hundredths of a second (1.01 s = 101) and are kept         *)
(* relative to the instant of the callback that runs (current_time = 0, a  *)
(* send of d ago is -d): check_message_limit only compares a recorded time *)
(* with current_time - 1.01, so a time older than the window is kept as    *)
(* STALE whatever its age.  Prices are in cents.                           *)
(* Every callback of the trader is one action; the callback's code is an   *)
(* operator from the trader's state (a record of its fields) to its state  *)
(* after the call.  The only callback that takes more than one step is a   *)
(* fill whose hedge is throttled: it stays inside send_hedge_order's sleep *)
(* loop (pending) and each turn of the loop is a step.                     *)
(***************************************************************************)
EXTENDS Integers, Sequences, FiniteSets, TLC

VARIABLES
    order_ids,          \* the next client order id (itertools.count(1))
    bids, asks,         \* id -> limit price of the own orders recorded per side
    hedge_bid, hedge_ask, \* ids of the hedge orders recorded per side
    msg_seq,            \* highest snapshot sequence number seen
    order_timestamps,   \* the rate window: times of the admitted sends
    position, delta,
    future_bid, future_ask,
    pending,            \* <<>>, or the hedge send_hedge_order is blocked on
    ev,                 \* the callback delivered last
    sent,               \* the commands that callback has handed to the transport
    checks,             \* the results of its check_message_limit calls
    working,            \* exchange: id -> side and unfilled volume of each insert sent
    hedged,             \* exchange: id -> side and volume of each hedge sent
    admitted,           \* times of the admissions of the last 1.01 s, oldest first
    sends               \* times of the commands sent in the last 1.01 s, oldest first

vars == <<order_ids, bids, asks, hedge_bid, hedge_ask, msg_seq, order_timestamps,
          position, delta, future_bid, future_ask, pending, ev, sent, checks,
          working, hedged, admitted, sends>>

\* the trader's own fields
fields == <<order_ids, bids, asks, hedge_bid, hedge_ask, msg_seq, order_timestamps,
            position, delta, future_bid, future_ask>>

-----------------------------------------------------------------------------
(* Program constants *)

LOT_SIZE == 20
POSITION_LIMIT == 100
ARBITRAGE_LIMIT == 20
TICK_SIZE_IN_CENTS == 100
MINIMUM_BID == 1
MAXIMUM_ASK == 2147483647
MIN_BID_NEAREST_TICK ==
    ((MINIMUM_BID + TICK_SIZE_IN_CENTS) \div TICK_SIZE_IN_CENTS) * TICK_SIZE_IN_CENTS
MAX_ASK_NEAREST_TICK == (MAXIMUM_ASK \div TICK_SIZE_IN_CENTS) * TICK_SIZE_IN_CENTS
\* check_message_limit: 50 messages per 1.01 s; send_hedge_order sleeps 0.1 s
MESSAGE_LIMIT == 50
WINDOW == 101
SLEEP == 10
\* clear_book: 3 * LOT_SIZE; handle_market_making: 2 * TICK_SIZE_IN_CENTS
CLEAR_LOTS == 3
QUOTE_TICKS == 2

-----------------------------------------------------------------------------
(* Bounds of the model *)

MaxOrderId == 3        \* ids the trader may allocate under Spec
MaxBurstOrderId == 2   \* ... under SpecBurst and SpecThrottle
MaxLadderOrderId == 12 \* ... under SpecLadder
MaxQuoteOrderId == 5   \* ... under SpecQuote
MaxBookOrderId == 4
MaxRiskOrderId == 5    \* ... under SpecBook
MaxSeq == 1            \* snapshot sequence numbers 0..MaxSeq

-----------------------------------------------------------------------------
(* Helpers *)

Min(a, b) == IF a < b THEN a ELSE b
Max(a, b) == IF a > b THEN a ELSE b

MinOf(S) == CHOOSE x \in S : \A y \in S : x <= y

\* the elements of a set of ids in increasing order: a dict's iteration order,
\* since ids are inserted in increasing order and never re-inserted
RECURSIVE Ascending(_)
Ascending(S) ==
    IF S = {} THEN <<>> ELSE LET m == MinOf(S) IN <<m>> \o Ascending(S \ {m})

\* range(a, b, step) for step > 0
RECURSIVE PyRange(_, _, _)
PyRange(a, b, step) == IF a >= b THEN <<>> ELSE <<a>> \o PyRange(a + step, b, step)

Values(d) == {d[k] : k \in DOMAIN d}
Pop(d, k) == [x \in DOMAIN d \ {k} |-> d[x]]
Put(d, k, v) == [x \in DOMAIN d \cup {k} |-> IF x = k THEN v ELSE d[x]]
Empty == [x \in {} |-> 0]

\* time.time() at the callback that runs: the origin of the recorded times
current_time == 0
\* any time older than the window
STALE == 0 - (WINDOW + 1)

\* recorded times once d more has passed
Aged(ts, d) == [i \in 1..Len(ts) |-> Max(ts[i] - d, STALE)]

\* the entries of a time-ordered sequence that lie in the trailing window
RECURSIVE Trailing(_)
Trailing(ts) ==
    IF Len(ts) > 0 /\ Head(ts) < current_time - WINDOW THEN Trailing(Tail(ts)) ELSE ts

Cmd(c, id, side, price, volume, lifespan) ==
    [cmd |-> c, id |-> id, side |-> side, price |-> price, volume |-> volume,
     lifespan |-> lifespan]

\* the trader's state as the callbacks' code sees and changes it
Self ==
    [order_ids |-> order_ids, bids |-> bids, asks |-> asks,
     hedge_bid |-> hedge_bid, hedge_ask |-> hedge_ask, msg_seq |-> msg_seq,
     order_timestamps |-> order_timestamps, position |-> position, delta |-> delta,
     future_bid |-> future_bid, future_ask |-> future_ask,
     pending |-> <<>>, sent |-> <<>>, checks |-> <<>>,
     working |-> working, hedged |-> hedged, admitted |-> admitted, sends |-> sends,
     ret |-> TRUE]

-----------------------------------------------------------------------------
(* The rate window *)

\* the while loop of check_message_limit
RECURSIVE popleft_old(_)
popleft_old(ts) ==
    IF Len(ts) > 0 /\ Head(ts) < current_time - WINDOW
    THEN popleft_old(Tail(ts))
    ELSE ts

\* check_message_limit letting one message too many through
check_message_limit_one_more(s) ==
    LET ts == popleft_old(s.order_timestamps) IN
    IF Len(ts) = MESSAGE_LIMIT + 1
    THEN [s EXCEPT !.order_timestamps = ts, !.ret = FALSE,
                   !.checks = Append(@, FALSE)]
    ELSE [s EXCEPT !.order_timestamps = Append(ts, current_time), !.ret = TRUE,
                   !.checks = Append(@, TRUE),
                   !.admitted = Append(@, current_time)]

check_message_limit(s) ==
    LET ts == popleft_old(s.order_timestamps) IN
    IF Len(ts) = MESSAGE_LIMIT
    THEN [s EXCEPT !.order_timestamps = ts, !.ret = FALSE,
                   !.checks = Append(@, FALSE)]
    ELSE [s EXCEPT !.order_timestamps = Append(ts, current_time), !.ret = TRUE,
                   !.checks = Append(@, TRUE),
                   !.admitted = Append(@, current_time)]

-----------------------------------------------------------------------------
(* The send wrappers *)

send_bid_order(s, price, volume, type) ==
    LET c == check_message_limit(s) IN
    IF ~c.ret THEN c
    ELSE LET bid_id == c.order_ids IN
         [c EXCEPT !.order_ids = bid_id + 1,
                   !.sent = Append(@, Cmd("insert", bid_id, "BUY", price, volume, type)),
                   !.sends = Append(@, current_time),
                   !.working = Put(@, bid_id, [side |-> "BUY", volume |-> volume]),
                   !.bids = Put(@, bid_id, price),
                   !.ret = TRUE]

\* send_ask_order taking its id before it asks for admission
send_ask_order_taking_id(s, price, volume, type) ==
    LET ask_id == s.order_ids
        c == check_message_limit([s EXCEPT !.order_ids = ask_id + 1])
    IN  IF ~c.ret THEN c
        ELSE [c EXCEPT !.sent = Append(@, Cmd("insert", ask_id, "SELL", price, volume, type)),
                       !.sends = Append(@, current_time),
                       !.working = Put(@, ask_id, [side |-> "SELL", volume |-> volume]),
                       !.asks = Put(@, ask_id, price),
                       !.ret = TRUE]

send_ask_order(s, price, volume, type) ==
    LET c == check_message_limit(s) IN
    IF ~c.ret THEN c
    ELSE LET ask_id == c.order_ids IN
         [c EXCEPT !.order_ids = ask_id + 1,
                   !.sent = Append(@, Cmd("insert", ask_id, "SELL", price, volume, type)),
                   !.sends = Append(@, current_time),
                   !.working = Put(@, ask_id, [side |-> "SELL", volume |-> volume]),
                   !.asks = Put(@, ask_id, price),
                   !.ret = TRUE]

\* send_hedge_order's sending part leaving the id counter where it was
hedge_admitted_same_id(c, price, volume, side) ==
    LET order_id == c.order_ids IN
    [c EXCEPT !.hedge_bid = IF side = "BUY" THEN @ \cup {order_id} ELSE @,
              !.hedge_ask = IF side = "BUY" THEN @ ELSE @ \cup {order_id},
              !.sent = Append(@, Cmd("hedge", order_id, side, price, volume, "-")),
              !.sends = Append(@, current_time),
              !.hedged = Put(@, order_id, [side |-> side, volume |-> volume]),
              !.pending = <<>>,
              !.ret = TRUE]

\* send_hedge_order once check_message_limit has admitted it
hedge_admitted(c, price, volume, side) ==
    LET order_id == c.order_ids IN
    [c EXCEPT !.order_ids = order_id + 1,
              !.hedge_bid = IF side = "BUY" THEN @ \cup {order_id} ELSE @,
              !.hedge_ask = IF side = "BUY" THEN @ ELSE @ \cup {order_id},
              !.sent = Append(@, Cmd("hedge", order_id, side, price, volume, "-")),
              !.sends = Append(@, current_time),
              !.hedged = Put(@, order_id, [side |-> side, volume |-> volume]),
              !.pending = <<>>,
              !.ret = TRUE]

\* send_hedge_order giving up, as the other wrappers do, when not admitted
send_hedge_order_skipping(s, price, volume, side) ==
    LET c == check_message_limit(s) IN
    IF ~c.ret THEN c ELSE hedge_admitted(c, price, volume, side)

\* one turn of send_hedge_order's loop: admitted and sent, or left pending
\* (the caller sleeps and tries again)
send_hedge_order(s, price, volume, side) ==
    LET c == check_message_limit(s) IN
    IF ~c.ret
    THEN [c EXCEPT !.pending = <<[price |-> price, volume |-> volume, side |-> side]>>]
    ELSE hedge_admitted(c, price, volume, side)

\* send_cancel_order forgetting the order as soon as the cancel is sent
send_cancel_order_forgetting(s, order_id) ==
    LET c == check_message_limit(s) IN
    IF ~c.ret THEN c
    ELSE [c EXCEPT !.sent = Append(@, Cmd("cancel", order_id, "-", 0, 0, "-")),
                   !.sends = Append(@, current_time),
                   !.bids = Pop(@, order_id), !.asks = Pop(@, order_id),
                   !.ret = TRUE]

send_cancel_order(s, order_id) ==
    LET c == check_message_limit(s) IN
    IF ~c.ret THEN c
    ELSE [c EXCEPT !.sent = Append(@, Cmd("cancel", order_id, "-", 0, 0, "-")),
                   !.sends = Append(@, current_time),
                   !.ret = TRUE]

\* send_cancel_order for each id of a sequence, in order
RECURSIVE cancel_each(_, _)
cancel_each(s, ids) ==
    IF ids = <<>> THEN s ELSE cancel_each(send_cancel_order(s, Head(ids)), Tail(ids))

-----------------------------------------------------------------------------
(* Trimming and clearing *)

\* trim_orders measuring the asks against future_ask as well
trim_orders_one_price(s) ==
    LET bid_ids == SelectSeq(Ascending(DOMAIN s.bids), LAMBDA i : s.bids[i] > s.future_ask)
        ask_ids == SelectSeq(Ascending(DOMAIN s.asks), LAMBDA i : s.asks[i] < s.future_ask)
    IN  cancel_each(cancel_each(s, bid_ids), ask_ids)

trim_orders(s) ==
    LET bid_ids == SelectSeq(Ascending(DOMAIN s.bids), LAMBDA i : s.bids[i] > s.future_ask)
        ask_ids == SelectSeq(Ascending(DOMAIN s.asks), LAMBDA i : s.asks[i] < s.future_bid)
    IN  cancel_each(cancel_each(s, bid_ids), ask_ids)

\* the price of the first level at which the cumulative volume reaches
\* 3 * LOT_SIZE, and prices[-1] when it never does
RECURSIVE cutoff_from(_, _, _, _)
cutoff_from(prices, volumes, i, vol) ==
    IF i > Len(volumes) THEN prices[Len(prices)]
    ELSE IF vol + volumes[i] >= CLEAR_LOTS * LOT_SIZE THEN prices[i]
    ELSE cutoff_from(prices, volumes, i + 1, vol + volumes[i])

cutoff(prices, volumes) == cutoff_from(prices, volumes, 1, 0)

clear_book(s, ask_prices, bid_prices, ask_volumes, bid_volumes) ==
    LET cutoff_ask == cutoff(ask_prices, ask_volumes)
        cutoff_bid == cutoff(bid_prices, bid_volumes)
        bid_ids == SelectSeq(Ascending(DOMAIN s.bids), LAMBDA i : s.bids[i] <= cutoff_bid)
        ask_ids == SelectSeq(Ascending(DOMAIN s.asks), LAMBDA i : s.asks[i] >= cutoff_ask)
    IN  cancel_each(cancel_each(s, bid_ids), ask_ids)

-----------------------------------------------------------------------------
(* The arbitrage detector and the quoter *)

\* handle_arbitrage sizing against POSITION_LIMIT
handle_arbitrage_to_position_limit(s, ask_prices, ask_volumes, bid_prices, bid_volumes) ==
    IF ask_prices[1] < s.future_bid
    THEN LET buy_volume == Min(ask_volumes[1], POSITION_LIMIT - s.position) IN
         IF buy_volume > 0
         THEN send_bid_order(s, ask_prices[1], buy_volume, "FILL_AND_KILL")
         ELSE s
    ELSE IF bid_prices[1] > s.future_ask
    THEN LET sell_volume == Min(bid_volumes[1], s.position + POSITION_LIMIT) IN
         IF sell_volume > 0
         THEN send_ask_order(s, bid_prices[1], sell_volume, "FILL_AND_KILL")
         ELSE s
    ELSE s

\* handle_arbitrage asking for all the room under the cap, whatever the book shows
handle_arbitrage_whole_room(s, ask_prices, ask_volumes, bid_prices, bid_volumes) ==
    IF ask_prices[1] < s.future_bid
    THEN LET buy_volume == ARBITRAGE_LIMIT - s.position IN
         IF buy_volume > 0
         THEN send_bid_order(s, ask_prices[1], buy_volume, "FILL_AND_KILL")
         ELSE s
    ELSE IF bid_prices[1] > s.future_ask
    THEN LET sell_volume == s.position + ARBITRAGE_LIMIT IN
         IF sell_volume > 0
         THEN send_ask_order(s, bid_prices[1], sell_volume, "FILL_AND_KILL")
         ELSE s
    ELSE s

handle_arbitrage(s, ask_prices, ask_volumes, bid_prices, bid_volumes) ==
    IF ask_prices[1] < s.future_bid
    THEN LET buy_volume == Min(ask_volumes[1], ARBITRAGE_LIMIT - s.position)
             buy_price == ask_prices[1]
         IN  IF buy_volume > 0
             THEN send_bid_order(s, buy_price, buy_volume, "FILL_AND_KILL")
             ELSE s
    ELSE IF bid_prices[1] > s.future_ask
    THEN LET sell_volume == Min(bid_volumes[1], s.position + ARBITRAGE_LIMIT)
             sell_price == bid_prices[1]
         IN  IF sell_volume > 0
             THEN send_ask_order(s, sell_price, sell_volume, "FILL_AND_KILL")
             ELSE s
    ELSE s

\* the ask loop of handle_market_making over the prices left to walk
RECURSIVE quote_asks(_, _, _)
quote_asks(s, prices, max_sell_order) ==
    IF prices = <<>> THEN s
    ELSE IF Head(prices) \notin Values(s.asks) /\ max_sell_order > 0
    THEN quote_asks(send_ask_order(s, Head(prices), LOT_SIZE, "GOOD_FOR_DAY"),
                    Tail(prices), max_sell_order - 1)
    ELSE quote_asks(s, Tail(prices), max_sell_order)

RECURSIVE quote_bids(_, _, _)
quote_bids(s, prices, max_buy_order) ==
    IF prices = <<>> THEN s
    ELSE IF Head(prices) \notin Values(s.bids) /\ max_buy_order > 0
    THEN quote_bids(send_bid_order(s, Head(prices), LOT_SIZE, "GOOD_FOR_DAY"),
                    Tail(prices), max_buy_order - 1)
    ELSE quote_bids(s, Tail(prices), max_buy_order)

\* Python's floor division by a positive number
FloorDiv(a, b) == a \div b

\* handle_market_making not counting the orders already recorded
handle_market_making_uncounted(s, bid_prices, bid_volumes, ask_prices, ask_volumes) ==
    LET c == clear_book(s, ask_prices, bid_prices, ask_volumes, bid_volumes)
        max_buy_order == FloorDiv(POSITION_LIMIT - c.position, LOT_SIZE)
        max_sell_order == FloorDiv(c.position + POSITION_LIMIT, LOT_SIZE)
        max_bid == c.future_bid - QUOTE_TICKS * TICK_SIZE_IN_CENTS
        min_ask == c.future_ask + QUOTE_TICKS * TICK_SIZE_IN_CENTS
        a == quote_asks(c, PyRange(min_ask, ask_prices[1], TICK_SIZE_IN_CENTS),
                        max_sell_order)
    IN  quote_bids(a, PyRange(bid_prices[1], max_bid, TICK_SIZE_IN_CENTS), max_buy_order)

\* handle_market_making quoting the band's upper ends too
handle_market_making_closed_band(s, bid_prices, bid_volumes, ask_prices, ask_volumes) ==
    LET c == clear_book(s, ask_prices, bid_prices, ask_volumes, bid_volumes)
        max_buy_order ==
            FloorDiv(POSITION_LIMIT - c.position, LOT_SIZE) - Cardinality(DOMAIN c.bids)
        max_sell_order ==
            FloorDiv(c.position + POSITION_LIMIT, LOT_SIZE) - Cardinality(DOMAIN c.asks)
        max_bid == c.future_bid - QUOTE_TICKS * TICK_SIZE_IN_CENTS
        min_ask == c.future_ask + QUOTE_TICKS * TICK_SIZE_IN_CENTS
        a == quote_asks(c, PyRange(min_ask, ask_prices[1] + 1, TICK_SIZE_IN_CENTS),
                        max_sell_order)
    IN  quote_bids(a, PyRange(bid_prices[1], max_bid + 1, TICK_SIZE_IN_CENTS),
                   max_buy_order)

handle_market_making(s, bid_prices, bid_volumes, ask_prices, ask_volumes) ==
    LET c == clear_book(s, ask_prices, bid_prices, ask_volumes, bid_volumes)
        max_buy_order ==
            FloorDiv(POSITION_LIMIT - c.position, LOT_SIZE) - Cardinality(DOMAIN c.bids)
        max_sell_order ==
            FloorDiv(c.position + POSITION_LIMIT, LOT_SIZE) - Cardinality(DOMAIN c.asks)
        max_bid == c.future_bid - QUOTE_TICKS * TICK_SIZE_IN_CENTS
        min_ask == c.future_ask + QUOTE_TICKS * TICK_SIZE_IN_CENTS
        etf_bid == bid_prices[1]
        etf_ask == ask_prices[1]
        a == quote_asks(c, PyRange(min_ask, etf_ask, TICK_SIZE_IN_CENTS), max_sell_order)
    IN  quote_bids(a, PyRange(etf_bid, max_bid, TICK_SIZE_IN_CENTS), max_buy_order)

-----------------------------------------------------------------------------
(* The callbacks *)

on_order_status_message(s, client_order_id, fill_volume, remaining_volume, fees) ==
    IF remaining_volume = 0
    THEN [s EXCEPT !.bids = Pop(@, client_order_id), !.asks = Pop(@, client_order_id)]
    ELSE s

\* on_error_message only logging the error
on_error_message_logging_only(s, client_order_id) == s

on_error_message(s, client_order_id) ==
    IF client_order_id # 0
       /\ (client_order_id \in DOMAIN s.bids \/ client_order_id \in DOMAIN s.asks)
    THEN on_order_status_message(s, client_order_id, 0, 0, 0)
    ELSE s

\* the dispatch running the quoter after the detector
dispatch_both(g, instrument, ask_prices, ask_volumes, bid_prices, bid_volumes) ==
    IF instrument = "ETF"
    THEN IF ask_prices[1] < g.future_bid \/ bid_prices[1] > g.future_ask
         THEN handle_market_making(
                  handle_arbitrage(g, ask_prices, ask_volumes, bid_prices, bid_volumes),
                  bid_prices, bid_volumes, ask_prices, ask_volumes)
         ELSE IF ask_prices[1] > g.future_ask /\ bid_prices[1] < g.future_bid
         THEN handle_market_making(g, bid_prices, bid_volumes, ask_prices, ask_volumes)
         ELSE g
    ELSE IF instrument = "FUTURE"
    THEN trim_orders([g EXCEPT !.future_bid = bid_prices[1], !.future_ask = ask_prices[1]])
    ELSE g

\* the dispatch of on_order_book_update_message once a snapshot is accepted
dispatch(g, instrument, ask_prices, ask_volumes, bid_prices, bid_volumes) ==
    IF instrument = "ETF"
    THEN IF ask_prices[1] < g.future_bid \/ bid_prices[1] > g.future_ask
         THEN handle_arbitrage(g, ask_prices, ask_volumes, bid_prices, bid_volumes)
         ELSE IF ask_prices[1] > g.future_ask /\ bid_prices[1] < g.future_bid
         THEN handle_market_making(g, bid_prices, bid_volumes, ask_prices, ask_volumes)
         ELSE g
    ELSE IF instrument = "FUTURE"
    THEN trim_orders([g EXCEPT !.future_bid = bid_prices[1], !.future_ask = ask_prices[1]])
    ELSE g

\* on_order_book_update_message without the sequence-number gate
on_order_book_update_message_ungated(s, instrument, sequence_number, ask_prices, ask_volumes, bid_prices, bid_volumes) ==
    LET g == [s EXCEPT !.msg_seq = Max(@, sequence_number)] IN
    IF bid_prices[1] = 0 \/ ask_prices[1] = 0 THEN g
    ELSE dispatch(g, instrument, ask_prices, ask_volumes, bid_prices, bid_volumes)

\* on_order_book_update_message discarding every number already seen
on_order_book_update_message_strict(s, instrument, sequence_number, ask_prices, ask_volumes, bid_prices, bid_volumes) ==
    IF sequence_number <= s.msg_seq /\ s.msg_seq > 0 THEN s
    ELSE IF bid_prices[1] = 0 \/ ask_prices[1] = 0
    THEN [s EXCEPT !.msg_seq = sequence_number]
    ELSE dispatch([s EXCEPT !.msg_seq = sequence_number], instrument,
                  ask_prices, ask_volumes, bid_prices, bid_volumes)


on_order_book_update_message(s, instrument, sequence_number, ask_prices, ask_volumes, bid_prices, bid_volumes) ==
    LET g == [s EXCEPT !.msg_seq = Max(@, sequence_number)] IN
    IF sequence_number # g.msg_seq THEN g
    ELSE IF bid_prices[1] = 0 \/ ask_prices[1] = 0 THEN g
    ELSE dispatch(g, instrument, ask_prices, ask_volumes, bid_prices, bid_volumes)

on_order_filled_message(s, client_order_id, price, volume) ==
    IF client_order_id \in DOMAIN s.bids
    THEN send_hedge_order([s EXCEPT !.position = @ + volume, !.delta = @ + volume],
                          MIN_BID_NEAREST_TICK, volume, "SELL")
    ELSE IF client_order_id \in DOMAIN s.asks
    THEN send_hedge_order([s EXCEPT !.position = @ - volume, !.delta = @ - volume],
                          MAX_ASK_NEAREST_TICK, volume, "BUY")
    ELSE s

\* on_hedge_filled_message booking the hedge's volume on position
on_hedge_filled_message_on_position(s, client_order_id, price, volume) ==
    IF client_order_id \in s.hedge_bid
    THEN [s EXCEPT !.hedge_bid = @ \ {client_order_id}, !.position = @ + volume]
    ELSE IF client_order_id \in s.hedge_ask
    THEN [s EXCEPT !.hedge_ask = @ \ {client_order_id}, !.position = @ - volume]
    ELSE s

\* on_hedge_filled_message leaving the id in its set
on_hedge_filled_message_keeping_id(s, client_order_id, price, volume) ==
    IF client_order_id \in s.hedge_bid
    THEN [s EXCEPT !.delta = @ + volume]
    ELSE IF client_order_id \in s.hedge_ask
    THEN [s EXCEPT !.delta = @ - volume]
    ELSE s

on_hedge_filled_message(s, client_order_id, price, volume) ==
    IF client_order_id \in s.hedge_bid
    THEN [s EXCEPT !.hedge_bid = @ \ {client_order_id}, !.delta = @ + volume]
    ELSE IF client_order_id \in s.hedge_ask
    THEN [s EXCEPT !.hedge_ask = @ \ {client_order_id}, !.delta = @ - volume]
    ELSE s

on_trade_ticks_message(s, instrument, sequence_number) == s

-----------------------------------------------------------------------------
(* The callbacks as actions *)

Init ==
    /\ order_ids = 1
    /\ bids = Empty /\ asks = Empty
    /\ hedge_bid = {} /\ hedge_ask = {}
    /\ msg_seq = 0
    /\ order_timestamps = <<>>
    /\ position = 0 /\ future_bid = 0 /\ future_ask = 0 /\ delta = 0
    /\ pending = <<>>
    /\ ev = [kind |-> "init"]
    /\ sent = <<>> /\ checks = <<>>
    /\ working = Empty /\ hedged = Empty
    /\ admitted = <<>> /\ sends = <<>>

\* the trader's state when a callback starts `pause` after the previous one
At(pause) ==
    [Self EXCEPT !.order_timestamps = Aged(@, pause),
                 !.admitted = Trailing(Aged(@, pause)),
                 !.sends = Trailing(Aged(@, pause))]

\* the trader is left in state s by callback e; ids are allocated up to cap
Deliver(s, e, cap) ==
    /\ s.order_ids + Len(s.pending) <= cap + 1
    /\ order_ids' = s.order_ids
    /\ bids' = s.bids /\ asks' = s.asks
    /\ hedge_bid' = s.hedge_bid /\ hedge_ask' = s.hedge_ask
    /\ msg_seq' = s.msg_seq
    /\ order_timestamps' = s.order_timestamps
    /\ position' = s.position /\ delta' = s.delta
    /\ future_bid' = s.future_bid /\ future_ask' = s.future_ask
    /\ pending' = s.pending
    /\ ev' = e
    /\ sent' = s.sent /\ checks' = s.checks
    /\ working' = s.working /\ hedged' = s.hedged
    /\ admitted' = s.admitted /\ sends' = s.sends

\* a callback runs once, on the state s it finds, and leaves the state r
OrderBookUpdate(pause, instrument, sequence_number, b, cap) ==
    /\ pending = <<>>
    /\ \E s \in {At(pause)} :
       \E r \in {on_order_book_update_message(s, instrument, sequence_number,
                        b.ask_prices, b.ask_volumes, b.bid_prices, b.bid_volumes)} :
          Deliver(r,
                  [kind |-> "book", pause |-> pause, instrument |-> instrument,
                   seq |-> sequence_number, book |-> b,
                   \* the snapshot delivered just before had this instrument and number
                   dup |-> ev.kind = "book" /\ ev.instrument = instrument
                           /\ ev.seq = sequence_number],
                  cap)

TradeTicks(pause, instrument, sequence_number, cap) ==
    /\ pending = <<>>
    /\ \E s \in {At(pause)} :
       \E r \in {on_trade_ticks_message(s, instrument, sequence_number)} :
          Deliver(r, [kind |-> "ticks", pause |-> pause], cap)

\* the exchange fills part or all of what is left of an insert the trader sent
OrderFilled(pause, client_order_id, volume, cap) ==
    /\ pending = <<>>
    /\ client_order_id \in DOMAIN working
    /\ volume \in 1..working[client_order_id].volume
    /\ \E s \in {[At(pause) EXCEPT !.working[client_order_id].volume = @ - volume]} :
       \E r \in {on_order_filled_message(s, client_order_id, 0, volume)} :
          Deliver(r,
                  [kind |-> "fill", pause |-> pause, id |-> client_order_id,
                   volume |-> volume,
                   \* the side the ledger records the order on when the fill arrives
                   side |-> IF client_order_id \in DOMAIN bids THEN "BUY"
                            ELSE IF client_order_id \in DOMAIN asks THEN "SELL"
                            ELSE "-"],
                  cap)

\* send_hedge_order's loop: time.sleep(0.1), then check_message_limit again
HedgeRetry(cap) ==
    /\ pending # <<>>
    /\ \E s \in {[At(SLEEP) EXCEPT !.sent = sent, !.checks = checks]} :
       \E r \in {send_hedge_order(s, pending[1].price, pending[1].volume,
                                  pending[1].side)} :
          Deliver(r, ev, cap)

OrderStatus(pause, client_order_id, remaining_volume, cap) ==
    /\ pending = <<>>
    /\ \E s \in {At(pause)} :
       \E r \in {on_order_status_message(s, client_order_id, 0, remaining_volume, 0)} :
          Deliver(r,
                  [kind |-> "status", pause |-> pause, id |-> client_order_id,
                   remaining |-> remaining_volume],
                  cap)

Error(pause, client_order_id, cap) ==
    /\ pending = <<>>
    /\ \E s \in {At(pause)} :
       \E r \in {on_error_message(s, client_order_id)} :
          Deliver(r, [kind |-> "error", pause |-> pause, id |-> client_order_id], cap)

HedgeFilled(pause, client_order_id, volume, cap) ==
    /\ pending = <<>>
    /\ \E s \in {At(pause)} :
       \E r \in {on_hedge_filled_message(s, client_order_id, 0, volume)} :
          Deliver(r,
                  [kind |-> "hedge_fill", pause |-> pause, id |-> client_order_id,
                   volume |-> volume],
                  cap)

-----------------------------------------------------------------------------
(* The environment's inputs *)

\* five levels best first from a best price, n of them present, the rest zero
\* (a best price of 0 is a side with no level at all)
Levels(best, step, n) ==
    [i \in 1..5 |-> IF i <= n /\ best # 0 THEN best + (i - 1) * step ELSE 0]
Volumes(first, rest, n) ==
    [i \in 1..5 |-> IF i > n \/ first = 0 THEN 0 ELSE IF i = 1 THEN first ELSE rest]

Book(ask, ask_vol, bid, bid_vol, n) ==
    [ask_prices |-> Levels(ask, TICK_SIZE_IN_CENTS, n),
     ask_volumes |-> Volumes(ask_vol, 30, n),
     bid_prices |-> Levels(bid, 0 - TICK_SIZE_IN_CENTS, n),
     bid_volumes |-> Volumes(bid_vol, 30, n)]

\* the ids the exchange may name: 0 (no order) and the inserts the trader sent
OrderIds == {0} \cup DOMAIN working

\* what the exchange may fill of an order at once: all that is left, or half a lot
Rest(id) == {v \in {working[id].volume} : v >= 1}
HalfOrRest(id) == {v \in {LOT_SIZE \div 2, working[id].volume} : 1 <= v /\ v <= working[id].volume}

-----------------------------------------------------------------------------
(* Spec: the whole program, callbacks more than 1.01 s apart *)

\* snapshots of the future: 1000/1100, and one with no bid (price 0)
FutureBooks ==
    {Book(1100, 30, 1000, 30, 5), Book(1100, 30, 0, 0, 5)}

\* snapshots of the ETF: wide around the future (the quoter's case), below the
\* future's bid and above its ask (the detector's cases)
EtfBooks ==
    {Book(1400, 30, 700, 60, 5), Book(900, 15, 800, 30, 5),
     Book(1300, 30, 1200, 50, 3)}

Snapshots == ({"FUTURE"} \X FutureBooks) \cup ({"ETF"} \X EtfBooks)

Slow == WINDOW + 1

Snapshot ==
    \E x \in Snapshots, q \in 0..MaxSeq : OrderBookUpdate(Slow, x[1], q, x[2], MaxOrderId)

Ticks == TradeTicks(Slow, "ETF", msg_seq, MaxOrderId)

Fill ==
    \E id \in DOMAIN working :
        \E v \in Rest(id) : OrderFilled(Slow, id, v, MaxOrderId)

\* an order's status: nothing left of it (any id), or half a lot left (a recorded one)
Status ==
    \/ \E id \in OrderIds : OrderStatus(Slow, id, 0, MaxOrderId)
    \/ \E id \in DOMAIN bids \cup DOMAIN asks :
            OrderStatus(Slow, id, LOT_SIZE \div 2, MaxOrderId)

ErrorMessage == \E id \in OrderIds : Error(Slow, id, MaxOrderId)

HedgeFill ==
    \E id \in DOMAIN hedged : HedgeFilled(Slow, id, hedged[id].volume, MaxOrderId)

Next ==
    \/ Snapshot
    \/ Ticks
    \/ Fill
    \/ Status
    \/ ErrorMessage
    \/ HedgeFill

Spec == Init /\ [][Next]_vars

-----------------------------------------------------------------------------
(* SpecBurst: snapshots and fills at any pace, so that the rate window     *)
(* fills.  One future and one ETF snapshot: the ETF's places orders, and   *)
(* every later snapshot asks to cancel some of them.                       *)

BurstPauses == {0, WINDOW, WINDOW + 1}

BurstSnapshots ==
    {<<"FUTURE", Book(1100, 30, 1000, 30, 5)>>, <<"ETF", Book(1400, 30, 700, 60, 5)>>}

BurstSnapshot ==
    \E d \in BurstPauses, x \in BurstSnapshots :
        OrderBookUpdate(d, x[1], msg_seq, x[2], MaxBurstOrderId)

BurstFill ==
    \E d \in BurstPauses, id \in DOMAIN working :
        \E v \in HalfOrRest(id) : OrderFilled(d, id, v, MaxBurstOrderId)

BurstRetry == HedgeRetry(MaxBurstOrderId)

NextBurst ==
    \/ BurstSnapshot
    \/ BurstFill
    \/ BurstRetry

SpecBurst == Init /\ [][NextBurst]_vars

-----------------------------------------------------------------------------
(* SpecThrottle: SpecBurst with callbacks either at once or more than      *)
(* 1.01 s after the previous one, and the loop of send_hedge_order running  *)
(* on once entered (time.sleep returns).                                    *)

ThrottlePauses == {0, WINDOW + 1}

ThrottleSnapshot ==
    \E d \in ThrottlePauses, x \in BurstSnapshots :
        OrderBookUpdate(d, x[1], msg_seq, x[2], MaxBurstOrderId)

ThrottleFill ==
    \E d \in ThrottlePauses, id \in DOMAIN working :
        \E v \in HalfOrRest(id) : OrderFilled(d, id, v, MaxBurstOrderId)

ThrottleRetry == HedgeRetry(MaxBurstOrderId)

NextThrottle ==
    \/ ThrottleSnapshot
    \/ ThrottleFill
    \/ ThrottleRetry

SpecThrottle == Init /\ [][NextThrottle]_vars /\ WF_vars(ThrottleRetry)

-----------------------------------------------------------------------------
(* SpecLadder: a deep ladder of quotes and the fills that follow.  The     *)
(* future's snapshot comes first, the ETF's book is far below the future   *)
(* (five bid prices to quote) or under its bid (the detector buys), and    *)
(* the exchange fills whole orders and then reports them done.             *)

LadderBooks == {Book(1200, 30, 300, 30, 5), Book(900, 30, 800, 30, 5)}

LadderFuture ==
    OrderBookUpdate(Slow, "FUTURE", msg_seq, Book(1100, 30, 1000, 30, 5), MaxLadderOrderId)

LadderEtf ==
    /\ future_bid # 0
    /\ \E b \in LadderBooks : OrderBookUpdate(Slow, "ETF", msg_seq, b, MaxLadderOrderId)

LadderFill ==
    \E id \in DOMAIN working :
        \E v \in Rest(id) : OrderFilled(Slow, id, v, MaxLadderOrderId)

LadderStatus ==
    \E id \in DOMAIN working :
        /\ working[id].volume = 0
        /\ id \in DOMAIN bids \cup DOMAIN asks
        /\ OrderStatus(Slow, id, 0, MaxLadderOrderId)

NextLadder ==
    \/ LadderFuture
    \/ LadderEtf
    \/ LadderFill
    \/ LadderStatus

SpecLadder == Init /\ [][NextLadder]_vars

-----------------------------------------------------------------------------
(* SpecQuote: the quoter on both sides.  The future's snapshot comes       *)
(* first; the ETF's book leaves two prices to quote on each side, one on   *)
(* each side, or none; the exchange fills whole orders and reports any     *)
(* recorded order done.                                                    *)

QuoteBooks ==
    {Book(1500, 30, 600, 30, 5), Book(1400, 30, 700, 60, 5), Book(1300, 30, 800, 30, 5)}

QuoteFuture ==
    OrderBookUpdate(Slow, "FUTURE", msg_seq, Book(1100, 30, 1000, 30, 5), MaxQuoteOrderId)

QuoteEtf ==
    /\ future_bid # 0
    /\ \E b \in QuoteBooks : OrderBookUpdate(Slow, "ETF", msg_seq, b, MaxQuoteOrderId)

QuoteFill ==
    \E id \in DOMAIN working :
        \E v \in Rest(id) : OrderFilled(Slow, id, v, MaxQuoteOrderId)

QuoteStatus ==
    \E id \in DOMAIN bids \cup DOMAIN asks : OrderStatus(Slow, id, 0, MaxQuoteOrderId)

NextQuote ==
    \/ QuoteFuture
    \/ QuoteEtf
    \/ QuoteFill
    \/ QuoteStatus

SpecQuote == Init /\ [][NextQuote]_vars

-----------------------------------------------------------------------------
(* SpecBook: the snapshot dispatch with a future that moves.  The future   *)
(* is at 1000/1100, falls to 500/600 or rises to 1400/1500; the ETF's book *)
(* is wide and deep, wide and thin (two levels of 10 and 30 lots, the      *)
(* arrays zero-padded), or sits on the future's first prices; the exchange *)
(* reports any recorded order done.                                       *)

BookFutures ==
    {Book(1100, 30, 1000, 30, 5), Book(600, 30, 500, 30, 5), Book(1500, 30, 1400, 30, 5)}

BookEtfs ==
    {Book(1400, 30, 700, 60, 5), Book(1400, 10, 700, 10, 2), Book(1100, 30, 1000, 30, 5)}

BookFuture ==
    \E b \in BookFutures : OrderBookUpdate(Slow, "FUTURE", msg_seq, b, MaxBookOrderId)

BookEtf ==
    \E b \in BookEtfs : OrderBookUpdate(Slow, "ETF", msg_seq, b, MaxBookOrderId)

BookStatus ==
    \E id \in DOMAIN bids \cup DOMAIN asks : OrderStatus(Slow, id, 0, MaxBookOrderId)

NextBook ==
    \/ BookFuture
    \/ BookEtf
    \/ BookStatus

SpecBook == Init /\ [][NextBook]_vars

-----------------------------------------------------------------------------
(* SpecRisk: quotes, their fills and the hedges' fills.  The future stays  *)
(* at 1000/1100 and the ETF's book wide of it, so the quoter rests one     *)
(* order a side; the exchange fills them whole or half a lot at a time and *)
(* reports each hedge filled in full, any number of times, or reports a    *)
(* hedge fill for an id that is no hedge.                                  *)

RiskFuture ==
    OrderBookUpdate(Slow, "FUTURE", msg_seq, Book(1100, 30, 1000, 30, 5), MaxRiskOrderId)

RiskEtf ==
    /\ future_bid # 0
    /\ OrderBookUpdate(Slow, "ETF", msg_seq, Book(1400, 30, 700, 60, 5), MaxRiskOrderId)

RiskFill ==
    \E id \in DOMAIN working :
        \E v \in HalfOrRest(id) : OrderFilled(Slow, id, v, MaxRiskOrderId)

RiskHedgeFill ==
    \/ \E id \in DOMAIN hedged : HedgeFilled(Slow, id, hedged[id].volume, MaxRiskOrderId)
    \/ \E id \in OrderIds : HedgeFilled(Slow, id, LOT_SIZE, MaxRiskOrderId)

NextRisk ==
    \/ RiskFuture
    \/ RiskEtf
    \/ RiskFill
    \/ RiskHedgeFill

SpecRisk == Init /\ [][NextRisk]_vars

-----------------------------------------------------------------------------
(* Vocabulary of the properties *)

\* the inserts of a lifespan among the commands the last callback sent
Inserts(lifespan) ==
    {i \in 1..Len(sent) : sent[i].cmd = "insert" /\ sent[i].lifespan = lifespan}

\* the trader's fields after a callback that came d after the previous one
\* are what they were before it
Untouched(d) ==
    /\ order_timestamps' = Aged(order_timestamps, d)
    /\ UNCHANGED <<order_ids, bids, asks, hedge_bid, hedge_ask, msg_seq,
                   position, delta, future_bid, future_ask>>

\* the time between the previous step and this one
StepPause == IF pending # <<>> THEN SLEEP ELSE ev'.pause

\* the results of this step's calls of check_message_limit
StepChecks ==
    IF pending # <<>> THEN SubSeq(checks', Len(checks) + 1, Len(checks')) ELSE checks'

\* the admissions that lie in the trailing window when this step's callback starts
AdmittedAtStep == Trailing(Aged(admitted, StepPause))

Opposite(side) == IF side = "BUY" THEN "SELL" ELSE "BUY"

-----------------------------------------------------------------------------
(* Properties of the rate window *)

\* C1: at most MESSAGE_LIMIT admissions, and so at most MESSAGE_LIMIT commands
\* sent, lie in any trailing window of 1.01 s; an attempt made while
\* MESSAGE_LIMIT admissions lie in the window is refused and leaves the window
\* as it was; an attempt made 1.02 s after MESSAGE_LIMIT admissions is admitted.
C1_RateAdmission ==
    /\ [](Len(admitted) <= MESSAGE_LIMIT /\ Len(sends) <= MESSAGE_LIMIT)
    /\ [][StepChecks # <<>> =>
            /\ Len(AdmittedAtStep) = MESSAGE_LIMIT =>
                    /\ \A i \in 1..Len(StepChecks) : ~StepChecks[i]
                    /\ order_timestamps' = Aged(order_timestamps, StepPause)
                    /\ admitted' = AdmittedAtStep
            /\ (Len(admitted) = MESSAGE_LIMIT /\ StepPause >= WINDOW + 1) =>
                    StepChecks[1]]_vars

\* the window holds MESSAGE_LIMIT admissions and the next attempt was refused
C1_Refused ==
    /\ Len(admitted) = MESSAGE_LIMIT
    /\ Len(sends) = MESSAGE_LIMIT
    /\ checks # <<>>
    /\ ~checks[Len(checks)]

\* C4: a fill of a recorded order never returns without its hedge sent, the
\* loop of send_hedge_order that a full window starts ends with the hedge
\* sent, and a snapshot processed while the window is full sends nothing.
C4_HedgeNeverDropped ==
    /\ []((ev.kind = "fill" /\ ev.side # "-" /\ pending = <<>>) =>
            /\ sent # <<>>
            /\ sent[Len(sent)].cmd = "hedge"
            /\ sent[Len(sent)].volume = ev.volume)
    /\ (pending # <<>>) ~> (pending = <<>> /\ ev.kind = "fill" /\ sent # <<>>)
    /\ [][(pending = <<>> /\ ev'.kind = "book"
           /\ Len(AdmittedAtStep) = MESSAGE_LIMIT) =>
            (sent' = <<>> /\ UNCHANGED <<order_ids, bids, asks>>)]_vars

\* a hedge was refused by the full window at first, and sent in the end
C4_HedgeSentAfterWaiting ==
    /\ ev.kind = "fill" /\ ev.side # "-"
    /\ pending = <<>>
    /\ Len(checks) > 1
    /\ ~checks[1]
    /\ sent # <<>> /\ sent[Len(sent)].cmd = "hedge"

-----------------------------------------------------------------------------
(* Properties of position and hedging *)

\* C2: the position stays within POSITION_LIMIT on either side.
C2_PositionWithinLimit ==
    0 - POSITION_LIMIT <= position /\ position <= POSITION_LIMIT

\* C3: a fill of an order the trader sent leaves the handler with exactly one
\* hedge sent, on the side opposite to the order's, for the filled volume.
C3_EveryFillHedged ==
    (ev.kind = "fill" /\ pending = <<>>) =>
        /\ Len(sent) = 1
        /\ sent[1].cmd = "hedge"
        /\ sent[1].side = Opposite(working[ev.id].side)
        /\ sent[1].volume = ev.volume

\* C5: an order the arbitrage detector sends has a positive volume that does
\* not take the position past ARBITRAGE_LIMIT on its side.
C5_ArbitrageWithinCap ==
    ev.kind = "book" =>
        \A i \in Inserts("FILL_AND_KILL") :
            /\ sent[i].volume > 0
            /\ sent[i].side = "BUY" => position + sent[i].volume <= ARBITRAGE_LIMIT
            /\ sent[i].side = "SELL" => position - sent[i].volume >= 0 - ARBITRAGE_LIMIT

\* the detector sent an order while the position was not flat
C5_ArbitrageWithPosition ==
    /\ ev.kind = "book"
    /\ position # 0
    /\ Inserts("FILL_AND_KILL") # {}

-----------------------------------------------------------------------------
(* Properties of the ledger *)

C10_NoOptimisticPruning ==
    [][/\ \A id \in DOMAIN bids \cup DOMAIN asks :
            id \notin DOMAIN bids' \cup DOMAIN asks' =>
                \/ ev'.kind = "status" /\ ev'.id = id /\ ev'.remaining = 0
                \/ ev'.kind = "error" /\ ev'.id = id
       /\ \A id \in DOMAIN bids \cap DOMAIN bids' : bids'[id] = bids[id]
       /\ \A id \in DOMAIN asks \cap DOMAIN asks' : asks'[id] = asks[id]
       /\ (ev'.kind = "status" /\ ev'.remaining > 0) => UNCHANGED <<bids, asks>>
       /\ (ev'.kind = "status" /\ ev'.id \notin DOMAIN bids \cup DOMAIN asks) =>
            UNCHANGED <<bids, asks>>
       /\ (ev'.kind = "status" /\ ev'.remaining = 0) =>
            (bids' = Pop(bids, ev'.id) /\ asks' = Pop(asks, ev'.id))
       /\ \A i \in 1..Len(sent') :
            sent'[i].cmd = "cancel" =>
                (sent'[i].id \in DOMAIN bids \cup DOMAIN asks) =
                (sent'[i].id \in DOMAIN bids' \cup DOMAIN asks')]_vars

\* a cancel was sent and its order is still recorded
C10_CancelledStillRecorded ==
    \E i \in 1..Len(sent) :
        sent[i].cmd = "cancel" /\ sent[i].id \in DOMAIN bids \cup DOMAIN asks

-----------------------------------------------------------------------------
(* Properties of the snapshot gate *)

\* C7: a snapshot whose sequence number is lower than msg_seq sends no command,
\* asks for no admission and leaves every field as it was.
C7_StaleSnapshotIsNoOp ==
    [][(ev'.kind = "book" /\ ev'.seq < msg_seq) =>
            (Untouched(ev'.pause) /\ sent' = <<>> /\ checks' = <<>>)]_vars

\* a stale snapshot of the future arrived with a bid other than the one held
C7_StaleSnapshot ==
    /\ ev.kind = "book"
    /\ ev.seq < msg_seq
    /\ ev.instrument = "FUTURE"
    /\ ev.book.bid_prices[1] # 0
    /\ ev.book.bid_prices[1] # future_bid

\* C8: a snapshot that repeats the instrument and sequence number of the one
\* delivered just before sends no command and changes no field.
C8_DuplicateDiscarded ==
    [][(ev'.kind = "book" /\ ev'.dup) => (Untouched(ev'.pause) /\ sent' = <<>>)]_vars

\* C8, as the code has it: a repeated snapshot is discarded when its number is
\* below msg_seq; one that repeats msg_seq itself is processed like a new one:
\* the future's prices are stored, the detector asks for admission of its order.
C8_DuplicateGate ==
    [][(ev'.kind = "book" /\ ev'.dup) =>
            /\ ev'.seq < msg_seq => (Untouched(ev'.pause) /\ sent' = <<>>)
            /\ (ev'.seq >= msg_seq /\ ev'.book.bid_prices[1] # 0
                /\ ev'.book.ask_prices[1] # 0) =>
                    /\ msg_seq' = ev'.seq
                    /\ ev'.instrument = "FUTURE" =>
                            /\ future_bid' = ev'.book.bid_prices[1]
                            /\ future_ask' = ev'.book.ask_prices[1]
                    /\ (ev'.instrument = "ETF" /\ position = 0
                        /\ (ev'.book.ask_prices[1] < future_bid
                            \/ ev'.book.bid_prices[1] > future_ask)) =>
                            /\ checks' # <<>>
                            /\ checks'[1] =>
                                   /\ Len(sent') = 1
                                   /\ sent'[1].cmd = "insert"
                                   /\ sent'[1].lifespan = "FILL_AND_KILL"]_vars

\* a repeated snapshot passed the gate and the trader sent commands for it
C8_DuplicateProcessed ==
    /\ ev.kind = "book"
    /\ ev.dup
    /\ ev.seq = msg_seq
    /\ sent # <<>>

-----------------------------------------------------------------------------
(* Properties of the quoter *)

-----------------------------------------------------------------------------
(* Properties of the send wrappers *)

\* the calls of check_message_limit that admitted, among the results chk
Admissions(chk) == Cardinality({i \in 1..Len(chk) : chk[i]})

\* the ids of the inserts of a side among the commands cmds
InsertIds(cmds, side) ==
    {cmds[i].id : i \in {j \in 1..Len(cmds) : cmds[j].cmd = "insert" /\ cmds[j].side = side}}

\* C11: in a snapshot callback every admission is one command sent and every
\* refusal is none; an insert sent takes one new id and adds the entry
\* id -> price on its side and no other, and nothing else enters the ledger;
\* when every attempt is refused no command is sent, no id is taken, the
\* ledger and the rate window are as they were.
C11_ThrottledInsertHasNoEffect ==
    [][(ev'.kind = "book" /\ pending = <<>>) =>
            /\ Len(sent') = Admissions(checks')
            /\ order_ids' - order_ids
                    = Cardinality({i \in 1..Len(sent') : sent'[i].cmd = "insert"})
            /\ \A i \in 1..Len(sent') :
                    sent'[i].cmd = "insert" =>
                        /\ sent'[i].id >= order_ids /\ sent'[i].id < order_ids'
                        /\ \A j \in 1..Len(sent') : sent'[j].id = sent'[i].id => j = i
                        /\ sent'[i].side = "BUY" =>
                                /\ sent'[i].id \in DOMAIN bids' \ DOMAIN asks'
                                /\ bids'[sent'[i].id] = sent'[i].price
                        /\ sent'[i].side = "SELL" =>
                                /\ sent'[i].id \in DOMAIN asks' \ DOMAIN bids'
                                /\ asks'[sent'[i].id] = sent'[i].price
            /\ DOMAIN bids' = DOMAIN bids \cup InsertIds(sent', "BUY")
            /\ DOMAIN asks' = DOMAIN asks \cup InsertIds(sent', "SELL")
            /\ Admissions(checks') = 0 =>
                    /\ sent' = <<>>
                    /\ order_timestamps' = Aged(order_timestamps, ev'.pause)
                    /\ UNCHANGED <<order_ids, bids, asks>>]_vars

\* the quoter had an ask to place (none is recorded at its first price) and
\* every attempt of the snapshot was refused
C11_InsertRefused ==
    /\ ev.kind = "book" /\ ev.instrument = "ETF"
    /\ ev.seq = msg_seq
    /\ future_ask # 0
    /\ future_ask + QUOTE_TICKS * TICK_SIZE_IN_CENTS < ev.book.ask_prices[1]
    /\ ev.book.bid_prices[1] < future_bid
    /\ future_ask + QUOTE_TICKS * TICK_SIZE_IN_CENTS \notin Values(asks)
    /\ checks # <<>>
    /\ Admissions(checks) = 0

\* C12: the ids of the insert and hedge commands of a callback are new, above
\* every id sent before and increasing in send order; so bids, asks, hedge_bid
\* and hedge_ask never share an id and hold only ids below the next one.
C12_IdsNeverReused ==
    /\ [](/\ DOMAIN bids \cap DOMAIN asks = {}
          /\ hedge_bid \cap hedge_ask = {}
          /\ (DOMAIN bids \cup DOMAIN asks) \cap (hedge_bid \cup hedge_ask) = {}
          /\ \A id \in DOMAIN bids \cup DOMAIN asks \cup hedge_bid \cup hedge_ask :
                1 <= id /\ id < order_ids)
    /\ [][LET new == {i \in 1..Len(sent') : sent'[i].cmd \in {"insert", "hedge"}} IN
          ev'.kind \in {"book", "fill"} =>
            /\ \A i \in new :
                    /\ sent'[i].id >= order_ids
                    /\ sent'[i].id < order_ids'
                    /\ sent'[i].id \notin DOMAIN working \cup DOMAIN hedged
            /\ \A i, j \in new : i < j => sent'[i].id < sent'[j].id]_vars

\* orders and hedges of both sides are recorded at once
C12_AllFourRecorded ==
    /\ DOMAIN bids # {} /\ DOMAIN asks # {}
    /\ hedge_bid # {} /\ hedge_ask # {}

-----------------------------------------------------------------------------
(* Properties of the error, fill and hedge-fill callbacks *)

\* C13: the error callback sends nothing and changes neither position, delta,
\* the hedge sets, the id counter, the snapshot fields nor the rate window;
\* for id 0 or an id not recorded it changes no map, for a recorded id it
\* removes that entry and no other.
C13_ErrorRetiresOnlyItsOrder ==
    [][ev'.kind = "error" =>
            /\ sent' = <<>> /\ checks' = <<>>
            /\ order_timestamps' = Aged(order_timestamps, ev'.pause)
            /\ UNCHANGED <<order_ids, hedge_bid, hedge_ask, msg_seq, position, delta,
                           future_bid, future_ask>>
            /\ (ev'.id = 0 \/ ev'.id \notin DOMAIN bids \cup DOMAIN asks) =>
                    UNCHANGED <<bids, asks>>
            /\ (ev'.id # 0 /\ ev'.id \in DOMAIN bids \cup DOMAIN asks) =>
                    /\ bids' = Pop(bids, ev'.id)
                    /\ asks' = Pop(asks, ev'.id)
                    /\ ev'.id \notin DOMAIN bids' \cup DOMAIN asks']_vars

\* an error named an order the trader sent, which is not recorded any more
\* while another order still is
C13_ErrorForSentOrder ==
    /\ ev.kind = "error"
    /\ ev.id \in DOMAIN working
    /\ ev.id \notin DOMAIN bids \cup DOMAIN asks
    /\ DOMAIN bids \cup DOMAIN asks # {}

\* C14: a fill of an order recorded in bids adds its volume to position, a
\* fill of one recorded in asks subtracts it, and no other callback, nor a
\* fill of an order recorded in neither, nor a turn of send_hedge_order's
\* loop, changes position.
C14_PositionMovesOnlyOnFills ==
    [][/\ (ev'.kind = "fill" /\ pending = <<>>) =>
            position' = IF ev'.id \in DOMAIN bids THEN position + ev'.volume
                        ELSE IF ev'.id \in DOMAIN asks THEN position - ev'.volume
                        ELSE position
       /\ (ev'.kind # "fill" \/ pending # <<>>) => position' = position]_vars

\* a fill of a recorded ask has taken the position below zero
C14_SellFillBooked ==
    /\ ev.kind = "fill"
    /\ ev.side = "SELL"
    /\ position < 0
    /\ sent # <<>>

-----------------------------------------------------------------------------
(* Properties of the snapshot dispatch *)

\* the snapshot of this step passed the gate: its number is not below msg_seq
\* and neither best price is 0
Accepted ==
    /\ ev'.kind = "book"
    /\ ev'.seq >= msg_seq
    /\ ev'.book.bid_prices[1] # 0 /\ ev'.book.ask_prices[1] # 0

\* the ETF's best prices cross the future's
Crossed(b) == b.ask_prices[1] < future_bid \/ b.bid_prices[1] > future_ask

\* the ETF's best prices lie outside the future's on both sides
Wide(b) == b.ask_prices[1] > future_ask /\ b.bid_prices[1] < future_bid

\* C15: for an accepted ETF snapshot that crosses the future only fill-and-kill
\* inserts are sent; a cancel or a good-for-day quote is sent only for one
\* that does not cross it and lies wide of it on both sides; for one that does
\* neither, nothing is sent or attempted and the ledger, the position and the
\* rate window are as they were.
C15_DispatchExclusive ==
    [][(Accepted /\ ev'.instrument = "ETF") =>
            /\ Crossed(ev'.book) =>
                    \A i \in 1..Len(sent') :
                        sent'[i].cmd = "insert" /\ sent'[i].lifespan = "FILL_AND_KILL"
            /\ (\E i \in 1..Len(sent') :
                    sent'[i].cmd = "cancel" \/ sent'[i].lifespan = "GOOD_FOR_DAY") =>
                    (~Crossed(ev'.book) /\ Wide(ev'.book))
            /\ (~Crossed(ev'.book) /\ ~Wide(ev'.book)) =>
                    /\ sent' = <<>> /\ checks' = <<>>
                    /\ order_timestamps' = Aged(order_timestamps, ev'.pause)
                    /\ UNCHANGED <<order_ids, bids, asks, position, delta>>]_vars

\* an accepted ETF snapshot neither crossed the future nor lay wide of it,
\* with orders recorded and the future known
C15_InTheGap ==
    /\ ev.kind = "book" /\ ev.instrument = "ETF"
    /\ ev.seq = msg_seq
    /\ ev.book.bid_prices[1] # 0 /\ ev.book.ask_prices[1] # 0
    /\ future_bid # 0
    /\ ~Crossed(ev.book) /\ ~Wide(ev.book)
    /\ DOMAIN bids # {} /\ DOMAIN asks # {}

\* what an accepted ETF snapshot that calls for one arbitrage order of a side,
\* price and volume has left: the one insert when the volume is positive and
\* the attempt admitted, one refused attempt, or no attempt at all
OneArbitrageOrder(side, price, volume) ==
    IF volume <= 0 THEN sent = <<>> /\ checks = <<>>
    ELSE /\ Len(checks) = 1
         /\ sent = IF checks[1]
                   THEN <<Cmd("insert", order_ids - 1, side, price, volume, "FILL_AND_KILL")>>
                   ELSE <<>>

\* C16: after an accepted ETF snapshot with best ask < future_bid the commands
\* sent are one fill-and-kill buy at the best ask for min(its volume,
\* ARBITRAGE_LIMIT - position) when that is positive and admitted, and none
\* otherwise; with best bid > future_ask instead, one fill-and-kill sell at the
\* best bid for min(its volume, position + ARBITRAGE_LIMIT).
C16_ArbitrageOrder ==
    (/\ ev.kind = "book" /\ ev.instrument = "ETF"
     /\ ev.seq = msg_seq
     /\ ev.book.bid_prices[1] # 0 /\ ev.book.ask_prices[1] # 0) =>
        IF ev.book.ask_prices[1] < future_bid
        THEN OneArbitrageOrder("BUY", ev.book.ask_prices[1],
                               Min(ev.book.ask_volumes[1], ARBITRAGE_LIMIT - position))
        ELSE ev.book.bid_prices[1] > future_ask =>
             OneArbitrageOrder("SELL", ev.book.bid_prices[1],
                               Min(ev.book.bid_volumes[1], position + ARBITRAGE_LIMIT))

\* the detector bought what the book showed, less than the room under the cap
C16_BoughtBookVolume ==
    /\ ev.kind = "book" /\ ev.instrument = "ETF"
    /\ ev.book.ask_prices[1] < future_bid
    /\ Len(sent) = 1
    /\ sent[1].side = "BUY"
    /\ sent[1].volume = ev.book.ask_volumes[1]
    /\ sent[1].volume < ARBITRAGE_LIMIT - position

-----------------------------------------------------------------------------
(* Properties of clearing and trimming *)

\* the ids of the cancels among the commands cmds
CancelIds(cmds) == {cmds[i].id : i \in {j \in 1..Len(cmds) : cmds[j].cmd = "cancel"}}

\* the volume of the levels 1..i
RECURSIVE VolumeTo(_, _)
VolumeTo(volumes, i) == IF i = 0 THEN 0 ELSE volumes[i] + VolumeTo(volumes, i - 1)

\* the price of the first level at which the cumulative volume reaches
\* 3 * LOT_SIZE, and of the last level that is not empty when none does
VisibleCutoff(prices, volumes) ==
    LET reach == {i \in 1..Len(volumes) : VolumeTo(volumes, i) >= CLEAR_LOTS * LOT_SIZE}
        seen  == {i \in 1..Len(prices) : prices[i] # 0}
    IN  IF reach # {} THEN prices[MinOf(reach)]
        ELSE prices[CHOOSE i \in seen : \A j \in seen : j <= i]

\* C17: when the quoter runs, the cancels sent are those of exactly the own
\* bids priced at or below the bid cutoff and the own asks priced at or above
\* the ask cutoff, the cutoff of a side being the first level at which the
\* cumulative volume reaches 3 * LOT_SIZE and the worst level shown when none
\* does, also in a book of fewer than five levels.
C17_CancelsBeyondVisibleCutoff ==
    [][(Accepted /\ ev'.instrument = "ETF" /\ ~Crossed(ev'.book) /\ Wide(ev'.book)) =>
            CancelIds(sent')
                = {id \in DOMAIN bids :
                       bids[id] <= VisibleCutoff(ev'.book.bid_prices, ev'.book.bid_volumes)}
                  \cup {id \in DOMAIN asks :
                       asks[id] >= VisibleCutoff(ev'.book.ask_prices, ev'.book.ask_volumes)}]_vars

\* the ledger orders a future at the prices bid / ask leaves arbitrageable
Arbitrageable(bid, ask) ==
    {id \in DOMAIN bids : bids[id] > ask} \cup {id \in DOMAIN asks : asks[id] < bid}

\* C18: an accepted future snapshot sets future_bid and future_ask to its best
\* prices and attempts one cancel for each ledger bid above the new future_ask
\* and each ledger ask below the new future_bid; the commands sent are the
\* admitted ones of these cancels, all of them when every attempt is admitted,
\* and no insert or hedge; bids, asks, order_ids, position, delta and the
\* hedge sets are as they were.
C18_FutureTrim ==
    [][(Accepted /\ ev'.instrument = "FUTURE") =>
            /\ future_bid' = ev'.book.bid_prices[1]
            /\ future_ask' = ev'.book.ask_prices[1]
            /\ Len(checks') = Cardinality(Arbitrageable(future_bid', future_ask'))
            /\ Len(sent') = Admissions(checks')
            /\ \A i \in 1..Len(sent') : sent'[i].cmd = "cancel"
            /\ CancelIds(sent') \subseteq Arbitrageable(future_bid', future_ask')
            /\ Cardinality(CancelIds(sent')) = Len(sent')
            /\ UNCHANGED <<bids, asks, order_ids, position, delta, hedge_bid, hedge_ask>>]_vars

\* the future fell below a resting bid, or rose above a resting ask, and the
\* snapshot that said so cancelled the order
C18_TrimmedAfterFutureMoved ==
    /\ ev.kind = "book" /\ ev.instrument = "FUTURE"
    /\ ev.seq = msg_seq
    /\ sent # <<>>
    /\ CancelIds(sent) = Arbitrageable(future_bid, future_ask)

-----------------------------------------------------------------------------
(* Properties of the unknown future *)

\* C19: while future_bid = future_ask = 0, no future snapshot accepted yet, an
\* ETF snapshot sends no command.
C19_NoTradingBeforeFuture ==
    (ev.kind = "book" /\ ev.instrument = "ETF" /\ future_bid = 0 /\ future_ask = 0) =>
        sent = <<>>

-----------------------------------------------------------------------------
(* Properties of delta *)

\* the volume of the hedges ids
RECURSIVE HedgedVolume(_)
HedgedVolume(ids) ==
    IF ids = {} THEN 0
    ELSE LET id == CHOOSE x \in ids : TRUE IN hedged[id].volume + HedgedVolume(ids \ {id})

\* C20: with every hedge reported filled in full, between callbacks delta is
\* the volume of the hedges in hedge_ask less that of the hedges in hedge_bid,
\* and so 0 when both are empty; a hedge fill reported for an id in neither
\* set, one already removed included, changes nothing and sends nothing.
C20_DeltaIsOutstandingHedges ==
    /\ [](pending = <<>> => delta = HedgedVolume(hedge_ask) - HedgedVolume(hedge_bid))
    /\ [][(ev'.kind = "hedge_fill" /\ ev'.id \notin hedge_bid \cup hedge_ask) =>
              Untouched(ev'.pause) /\ sent' = <<>>]_vars

\* a hedge was reported filled while hedges of both sides stay outstanding
\* and delta is not 0
C20_HedgesOfBothSidesOutstanding ==
    /\ ev.kind = "hedge_fill"
    /\ ev.id \in DOMAIN hedged
    /\ hedge_bid # {} /\ hedge_ask # {}
    /\ delta # 0

====
